---- MODULE Spec2Model ----
(***************************************************************************)
(* A model of src/libutil/types.hh: ChunkedVector<T, ChunkSize> and        *)
(* BackedStringView.                                                       *)
(*                                                                         *)
(* Memory is modelled at the granularity of the objects the code touches:  *)
(* every std::vector is a header (start, finish, end-of-storage) and a     *)
(* heap buffer with an identity, so that "the element did not move" and    *)
(* "this store writes what that load reads" are statements about the       *)
(* state. The index type uint32_t is scaled down to 0..MaxIndex with       *)
(* arithmetic modulo MaxIndex + 1.                                         *)
(***************************************************************************)
EXTENDS Integers, Sequences, FiniteSets, TLC

\* ---------------------------------------------------------------- bounds
\* std::numeric_limits<uint32_t>::max(), scaled down
MaxIndex == 8
\* the template parameter ChunkSize ranges over 1..MaxChunkSize
MaxChunkSize == 3
\* the element type T has the values 1..NumValues
NumValues == 2
\* the constructor's reserve argument ranges over 0..MaxReserve
MaxReserve == 1
\* strings have at most MaxLen characters
MaxLen == 2

T == 1..NumValues

VARIABLES
    ChunkSize,  \* template parameter of this instantiation
    size_,      \* uint32_t size_
    chunks,     \* std::vector<std::vector<T>> chunks: the inner vector headers
    outerBuf,   \* identity of the buffer holding the inner vector headers
    outerCap,   \* chunks.capacity()
    nextBuf,    \* the allocator: the next fresh buffer identity
    aborted,    \* abort() was called
    ret,        \* what the last call returned
    writes,     \* the memory locations the last call wrote
    added,      \* history: the values passed to the add calls that returned
    returned,   \* history: the indices those add calls returned
    data,       \* BackedStringView::data, the variant
    heap,       \* character buffers by identity
    origin,     \* history: how the BackedStringView was constructed, and from what
    copies,     \* history: the number of character-buffer copies made so far
    bret        \* what the last BackedStringView call returned

cvVars == <<ChunkSize, size_, chunks, outerBuf, outerCap, nextBuf, aborted,
            ret, writes, added, returned>>
bsvVars == <<data, heap, origin, copies, bret>>
vars == <<cvVars, bsvVars>>

\* ------------------------------------------------------------ std::vector
\* A vector header: its buffer, its capacity and its elements.
EmptyVec == [buf |-> 0, cap |-> 0, elems |-> <<>>]

\* Growth of a full vector on emplace_back (libstdc++ and libc++ double).
VecGrow(cap) == IF cap = 0 THEN 1 ELSE 2 * cap

\* Memory locations: the size counter, a pointer field of the outer vector, a
\* pointer field of the header in slot k of outer buffer ob, slot o of element
\* buffer b.
SizeLoc == <<"size_", 0, 0, "">>
OuterLoc(f) == <<"outer", 0, 0, f>>
HdrLoc(ob, k, f) == <<"hdr", ob, k, f>>
ElemLoc(b, o) == <<"elem", b, o, "">>

\* The locations of a header stored in slot k of outer buffer ob.
HdrLocs(ob, k) == {HdrLoc(ob, k, f) : f \in {"start", "finish", "eos"}}

\* The element slots of buffer b with capacity cap.
BufLocs(b, cap) == {ElemLoc(b, o) : o \in 0..(cap - 1)}

\* uint32_t post-increment
Incr(n) == (n + 1) % (MaxIndex + 1)

\* reserve left out
Reserve_none(v, n, nb) == v

\* vector::reserve(n) on header v; nb is the next fresh buffer. The elements
\* move to a new buffer when the capacity has to grow.
Reserve(v, n, nb) ==
    IF n > v.cap THEN [buf |-> nb, cap |-> n, elems |-> v.elems] ELSE v

\* emplace_back that reallocates on every call
EmplaceBack_moves(v, x, nb) ==
    [buf |-> nb, cap |-> VecGrow(v.cap), elems |-> Append(v.elems, x)]

\* vector::emplace_back(x) on header v: in place while size() < capacity(),
\* otherwise into a new, larger buffer.
EmplaceBack(v, x, nb) ==
    IF Len(v.elems) < v.cap
    THEN [v EXCEPT !.elems = Append(@, x)]
    ELSE [buf |-> nb, cap |-> VecGrow(v.cap), elems |-> Append(v.elems, x)]

\* ---------------------------------------------------------- ChunkedVector
\* the overflow test left out
addChunkAborts_never(sz, C) == FALSE

\* the overflow test with > for >=
addChunkAborts_late(sz, C) == sz > MaxIndex - C

\* addChunk's overflow test, on the size counter as add left it
addChunkAborts(sz, C) == sz >= MaxIndex - C

\* the tail test one element early
TailHasRoom_early(back, C) == Len(back.elems) + 1 < C

\* the tail test with <= for <
TailHasRoom_over(back, C) == Len(back.elems) <= C

\* add's test that the tail chunk takes one more element
TailHasRoom(back, C) == Len(back.elems) < C

\* chunks.emplace_back(); chunks.back().reserve(ChunkSize): the outer vector
\* grows by one empty header, moving all headers to a new outer buffer when
\* it is full, and the new chunk gets its element buffer.
addChunk(chs, ob, oc, nb, C) ==
    LET n == Len(chs)
        full == n >= oc
        ob2 == IF full THEN nb ELSE ob
        nb1 == IF full THEN nb + 1 ELSE nb
        fresh == Reserve(EmptyVec, C, nb1)
    IN  [chunks |-> Append(chs, fresh),
         outerBuf |-> ob2,
         outerCap |-> IF full THEN VecGrow(oc) ELSE oc,
         nextBuf |-> IF fresh.buf = nb1 THEN nb1 + 1 ELSE nb1,
         writes |-> {OuterLoc("finish")} \cup HdrLocs(ob2, n + 1)
                    \cup (IF full
                          THEN {OuterLoc("start"), OuterLoc("eos")}
                               \cup UNION {HdrLocs(ob, k) \cup HdrLocs(ob2, k) : k \in 1..n}
                          ELSE {})]

\* ChunkedVector(reserve): chunks.reserve(reserve); addChunk();
New(C, reserve) ==
    LET outer == Reserve(EmptyVec, reserve, 1)
    IN  addChunk(<<>>, outer.buf, outer.cap, IF outer.buf = 1 THEN 2 ELSE 1, C)

\* idx / ChunkSize and idx % ChunkSize, as positions of 1-based sequences
ChunkOf(idx, C) == (idx \div C) + 1
\* the offset without the modulo
OffsetOf_noMod(idx, C) == idx + 1
OffsetOf(idx, C) == (idx % C) + 1

\* operator[](idx)
Subscript(idx) == chunks[ChunkOf(idx, ChunkSize)].elems[OffsetOf(idx, ChunkSize)]

\* Where operator[](idx) finds the element: the chunk's buffer and the offset.
Location(idx) ==
    ElemLoc(chunks[ChunkOf(idx, ChunkSize)].buf, OffsetOf(idx, ChunkSize) - 1)

\* What operator[](idx) and the caller's use of the reference read: the outer
\* vector's start pointer, the chunk header's start pointer, the element.
ReadSet(idx) ==
    {OuterLoc("start"),
     HdrLoc(outerBuf, ChunkOf(idx, ChunkSize), "start"),
     Location(idx)}

\* the chunks visited last to first
RECURSIVE Visit_reversed(_)
Visit_reversed(chs) ==
    IF chs = <<>> THEN <<>> ELSE Visit_reversed(Tail(chs)) \o Head(chs).elems

\* forEach's two loops: every chunk in order, every element of it in order
RECURSIVE Visit(_)
Visit(chs) == IF chs = <<>> THEN <<>> ELSE Head(chs).elems \o Visit(Tail(chs))

\* size()
size ==
    /\ ~aborted
    /\ ret' = [op |-> "size", val |-> size_]
    /\ writes' = {}
    /\ UNCHANGED <<ChunkSize, size_, chunks, outerBuf, outerCap, nextBuf, aborted,
                   added, returned, bsvVars>>

\* add(value): the element goes to the tail chunk, or to a new chunk when the
\* tail is full; addChunk aborts on overflow, after size_++ has happened.
add(value) ==
    /\ ~aborted
    /\ LET idx == size_
           sz == Incr(size_)
           room == TailHasRoom(chunks[Len(chunks)], ChunkSize)
           dies == ~room /\ addChunkAborts(sz, ChunkSize)
           cur == [chunks |-> chunks, outerBuf |-> outerBuf, outerCap |-> outerCap,
                   nextBuf |-> nextBuf, writes |-> {}]
           st == IF room THEN cur
                 ELSE addChunk(chunks, outerBuf, outerCap, nextBuf, ChunkSize)
           n == Len(st.chunks)
           back == st.chunks[n]
           grown == EmplaceBack(back, value, st.nextBuf)
           moved == grown.buf # back.buf
           ref == ElemLoc(grown.buf, Len(back.elems))
       IN  /\ size_' = sz
           /\ aborted' = dies
           /\ IF dies
              THEN /\ writes' = {SizeLoc}
                   /\ ret' = [op |-> "abort"]
                   /\ UNCHANGED <<chunks, outerBuf, outerCap, nextBuf, added, returned>>
              ELSE /\ chunks' = [st.chunks EXCEPT ![n] = grown]
                   /\ outerBuf' = st.outerBuf
                   /\ outerCap' = st.outerCap
                   /\ nextBuf' = IF moved THEN st.nextBuf + 1 ELSE st.nextBuf
                   /\ writes' = {SizeLoc, HdrLoc(st.outerBuf, n, "finish"), ref}
                                \cup st.writes
                                \cup (IF moved
                                      THEN HdrLocs(st.outerBuf, n)
                                           \cup BufLocs(back.buf, back.cap)
                                           \cup BufLocs(grown.buf, Len(grown.elems))
                                      ELSE {})
                   /\ ret' = [op |-> "add", idx |-> idx, ref |-> ref]
                   /\ added' = Append(added, value)
                   /\ returned' = Append(returned, idx)
    /\ UNCHANGED <<ChunkSize, bsvVars>>

\* operator[](idx), for the indices the contract allows
get(idx) ==
    /\ ~aborted
    /\ idx < size_
    /\ ret' = [op |-> "get", idx |-> idx, val |-> Subscript(idx), ref |-> Location(idx)]
    /\ writes' = {}
    /\ UNCHANGED <<ChunkSize, size_, chunks, outerBuf, outerCap, nextBuf, aborted,
                   added, returned, bsvVars>>

\* forEach(fn), fn recording what it is called with
forEach ==
    /\ ~aborted
    /\ ret' = [op |-> "forEach", visited |-> Visit(chunks)]
    /\ writes' = {}
    /\ UNCHANGED <<ChunkSize, size_, chunks, outerBuf, outerCap, nextBuf, aborted,
                   added, returned, bsvVars>>

\* no BackedStringView exists
NoView ==
    /\ data = [kind |-> "none"]
    /\ heap = <<>>
    /\ origin = [from |-> "none"]
    /\ copies = 0
    /\ bret = [op |-> "none"]

Init ==
    /\ \E C \in 1..MaxChunkSize, reserve \in 0..MaxReserve :
          LET st == New(C, reserve)
          IN  /\ ChunkSize = C
              /\ chunks = st.chunks
              /\ outerBuf = st.outerBuf
              /\ outerCap = st.outerCap
              /\ nextBuf = st.nextBuf
              /\ writes = st.writes
    /\ size_ = 0
    /\ aborted = FALSE
    /\ ret = [op |-> "new"]
    /\ added = <<>>
    /\ returned = <<>>
    /\ NoView

Next ==
    \/ \E value \in T : add(value)
    \/ \E idx \in 0..MaxIndex : get(idx)
    \/ forEach
    \/ size

Spec == Init /\ [][Next]_vars

\* ------------------------------------------------- ChunkedVector: claims
\* Index i designates an element that exists in the chunks.
InRange(i) ==
    /\ ChunkOf(i, ChunkSize) \in DOMAIN chunks
    /\ OffsetOf(i, ChunkSize) \in DOMAIN chunks[ChunkOf(i, ChunkSize)].elems

\* ceil(n / c)
Ceil(n, c) == (n + c - 1) \div c

RECURSIVE SumLen(_)
SumLen(chs) == IF chs = <<>> THEN 0 ELSE Len(Head(chs).elems) + SumLen(Tail(chs))

\* the state part and the step part of C1
C1_Values ==
    ~aborted =>
        /\ size_ = Len(added)
        /\ \A i \in 0..(Len(added) - 1) : InRange(i) /\ Subscript(i) = added[i + 1]
        /\ ret.op = "get" => ret.val = added[ret.idx + 1]
C1_Stable ==
    \A i \in 0..(Len(added) - 1) :
        InRange(i) /\ InRange(i)' => Subscript(i)' = Subscript(i)
\* C1: while no add has aborted, size() is the number of add calls made, and
\* operator[](i) is the value the i-th add was given, for every i < size();
\* a call of operator[] returns that value, and no later step changes it.
C1_SizeAndValues == [](C1_Values) /\ [][C1_Stable]_vars
\* three elements are in, the first two different, and one was read back
C1_Witness ==
    /\ Len(added) >= 3
    /\ added[1] # added[2]
    /\ Len(chunks) >= 2
    /\ ret.op = "get"
    /\ ret.idx = 0

\* C2 as stated: after N insertions exactly ceil(N / C) chunks are allocated.
C2_Original == ~aborted => Len(chunks) = Ceil(Len(added), ChunkSize)
\* the state part and the step part of the amended C2
C2_Count ==
    ~aborted =>
        Len(chunks) = IF Len(added) = 0 THEN 1 ELSE Ceil(Len(added), ChunkSize)
C2_Growth ==
    Len(chunks') # Len(chunks) =>
        /\ Len(chunks') = Len(chunks) + 1
        /\ Len(chunks[Len(chunks)].elems) = ChunkSize
\* C2 amended: after N insertions the number of chunks is ceil(N / C), except
\* that the constructor's chunk is there at N = 0; a chunk is added only one
\* at a time and only when the previous one holds exactly ChunkSize elements.
C2_ChunkCount == [](C2_Count) /\ [][C2_Growth]_vars
\* an add has just opened a third chunk
C2_Witness ==
    /\ ret.op = "add"
    /\ Len(chunks) = 3
    /\ Len(chunks[3].elems) = 1

\* C3: the element count never passes the largest index, the size counter of
\* a store that has not aborted has never wrapped (it is the true number of
\* elements), and no two add calls returned the same index.
C3_NoWrap ==
    /\ Len(added) <= MaxIndex
    /\ ~aborted => size_ = Len(added)
    /\ \A j, k \in DOMAIN returned : returned[j] = returned[k] => j = k
\* the store filled up to the point where add aborted
C3_Witness ==
    /\ aborted
    /\ Len(returned) >= 2
    /\ size_ = Len(added) + 1

\* C4 as stated: no later add writes anything operator[](i) reads.
C4_Original ==
    [][ret'.op = "add" =>
         \A i \in 0..(size_ - 1) : (ReadSet(i) \cup ReadSet(i)') \cap writes' = {}]_vars
\* what an add must leave alone, per stored element
C4_Step ==
    ret'.op = "add" =>
        \A i \in 0..(size_ - 1) :
            /\ Location(i) \notin writes'
            /\ outerBuf' = outerBuf =>
                   (ReadSet(i) \cup ReadSet(i)') \cap writes' = {}
\* C4 amended: no later add writes the storage of element i; and an add that
\* leaves the outer vector's buffer where it is writes nothing operator[](i)
\* reads. (An add that reallocates the outer vector writes its start pointer
\* and moves the chunk headers, both of which operator[](i) reads.)
C4_RaceFree == [][C4_Step]_vars
\* an add, with elements already stored, has just reallocated the outer vector
C4_Witness ==
    /\ ret.op = "add"
    /\ ret.idx >= 2
    /\ OuterLoc("start") \in writes

\* the state part and the step part of C5
C5_Capacity ==
    \A k \in DOMAIN chunks :
        /\ chunks[k].cap = ChunkSize
        /\ Len(chunks[k].elems) <= ChunkSize
C5_Step ==
    /\ Len(chunks') >= Len(chunks)
    /\ \A k \in DOMAIN chunks : chunks'[k].buf = chunks[k].buf
    /\ \A i \in 0..(Len(added) - 1) : Location(i)' = Location(i)
\* C5: a stored element stays in the same buffer at the same offset; chunks
\* are only appended, keep their buffers, and never hold more than the
\* ChunkSize elements reserved for them.
C5_StableStorage == [](C5_Capacity) /\ [][C5_Step]_vars
\* an add filled the second chunk after the outer vector was reallocated
C5_Witness ==
    /\ ret.op = "add"
    /\ Len(chunks) >= 2
    /\ outerBuf > 1
    /\ Len(chunks[2].elems) = ChunkSize

\* what a forEach step must satisfy
C6_Step ==
    ret'.op = "forEach" =>
        /\ ret'.visited = added
        /\ Len(ret'.visited) = size_
        /\ UNCHANGED <<size_, chunks, outerBuf, outerCap, nextBuf, added>>
\* C6: forEach calls the visitor with the values given to add, in that order,
\* size() times in all, and changes nothing of the store.
C6_ForEachOrder == [][C6_Step]_vars
\* forEach ran over two chunks holding different values
C6_Witness ==
    /\ ret.op = "forEach"
    /\ Len(chunks) >= 2
    /\ Len(ret.visited) >= 3
    /\ ret.visited[1] # ret.visited[Len(ret.visited)]

\* the state part and the step part of C9
C9_Dense ==
    ~aborted =>
        /\ \A i \in 0..MaxIndex : i < size_ <=> InRange(i)
        /\ \A k \in 1..(Len(chunks) - 1) : Len(chunks[k].elems) = ChunkSize
        /\ size_ = SumLen(chunks)
C9_Step ==
    ret'.op = "add" =>
        /\ ret'.idx = size_
        /\ size_' = size_ + 1
        /\ InRange(ret.idx)'
        /\ ret'.ref = Location(ret.idx)'
        /\ Subscript(ret.idx)' = added'[Len(added')]
\* C9: an add that returns gives the index size() had, adds exactly one to
\* size(), and puts the element at chunk i / ChunkSize, offset i % ChunkSize;
\* so between calls the valid indices are exactly [0, size()), every chunk but
\* the last is full, and size() is the sum of the chunk lengths.
C9_IndexMapping == [](C9_Dense) /\ [][C9_Step]_vars
\* an add returned the first index of the second chunk
C9_Witness ==
    /\ ret.op = "add"
    /\ ret.idx = ChunkSize
    /\ ChunkSize > 1

\* what an add step must satisfy
C10_Step ==
    ret'.op \in {"add", "abort"} =>
        /\ aborted' <=> /\ size_ > 0
                        /\ size_ % ChunkSize = 0
                        /\ size_ + 1 >= MaxIndex - ChunkSize
        /\ Len(chunks[Len(chunks)].elems) < ChunkSize => ~aborted'
        /\ aborted' => /\ size_ = Len(added)
                       /\ size_ < MaxIndex
                       /\ size_' = size_ + 1
\* C10: add aborts exactly when the tail chunk is full (size() a positive
\* multiple of ChunkSize) and size() + 1 >= MAX - ChunkSize; an add into a
\* tail with room never aborts; when it aborts, the index it was assigning is
\* representable: the counter had not wrapped and its increment did not wrap.
C10_AbortCondition == [][C10_Step]_vars
\* add aborted on a store whose chunks hold more than one element
C10_Witness ==
    /\ aborted
    /\ ret.op = "abort"
    /\ ChunkSize > 1

\* ------------------------------------------------------- BackedStringView
\* Characters, and the terminator of a string literal's array.
Chars == {"a", "b"}
NUL == "nul"

\* The strings of at most n characters.
Strs(n) == UNION {[1..k -> Chars] : k \in 0..n}

\* The arrays of string literals as written: the characters and a terminator.
Literals == {s \o <<NUL>> : s \in Strs(MaxLen)}

\* std::string_view(const char *): the length is that of the C string
Strlen_array(lit) == Len(lit)
Strlen(lit) ==
    (CHOOSE k \in 1..Len(lit) : lit[k] = NUL /\ \A j \in 1..(k - 1) : lit[j] # NUL) - 1

\* The characters a string_view [buf, off, len] designates in heap h.
Contents(h, view) == SubSeq(h[view.buf], view.off + 1, view.off + view.len)

\* isOwned(): std::holds_alternative<std::string>(data)
IsOwned(d) == d.kind = "string"

\* operator*: the view of the held string, or the held view
Deref(d, h) ==
    IF IsOwned(d)
    THEN [buf |-> d.buf, off |-> 0, len |-> Len(h[d.buf])]
    ELSE [buf |-> d.buf, off |-> d.off, len |-> d.len]

\* toOwned that constructs a std::string from the view in both cases
ToOwned_copies(d, h) ==
    [buf |-> Len(h) + 1,
     heap |-> Append(h, Contents(h, Deref(d, h))),
     copied |-> 1,
     data |-> d]

\* toOwned() &&: the held string is moved out (its buffer changes hands and
\* the variant keeps an empty, moved-from string), or a new std::string is
\* constructed from the held view (a new buffer with a copy of the characters).
ToOwned(d, h) ==
    IF IsOwned(d)
    THEN [buf |-> d.buf, heap |-> h, copied |-> 0,
          data |-> [kind |-> "string", buf |-> 0]]
    ELSE [buf |-> Len(h) + 1,
          heap |-> Append(h, Contents(h, Deref(d, h))),
          copied |-> 1,
          data |-> d]

\* The object exists and toOwned() has not consumed it.
live == data.kind # "none" /\ bret.op \notin {"toOwned", "mutated"}

\* BackedStringView(std::string && s): the variant takes over s's buffer
FromString(s) ==
    /\ data.kind = "none"
    /\ heap' = <<s>>
    /\ data' = [kind |-> "string", buf |-> 1]
    /\ origin' = [from |-> "string", arg |-> s]
    /\ bret' = [op |-> "new"]
    /\ UNCHANGED <<copies, cvVars>>

\* BackedStringView(std::string_view sv), sv a slice of the caller's string s
FromView(s, off, len) ==
    /\ data.kind = "none"
    /\ heap' = <<s>>
    /\ data' = [kind |-> "string_view", buf |-> 1, off |-> off, len |-> len]
    /\ origin' = [from |-> "string_view", arg |-> SubSeq(s, off + 1, off + len)]
    /\ bret' = [op |-> "new"]
    /\ UNCHANGED <<copies, cvVars>>

\* BackedStringView(const char (& lit)[N]): data(std::string_view(lit))
FromLiteral(lit) ==
    /\ data.kind = "none"
    /\ heap' = <<lit>>
    /\ data' = [kind |-> "string_view", buf |-> 1, off |-> 0, len |-> Strlen(lit)]
    /\ origin' = [from |-> "literal", arg |-> SubSeq(lit, 1, Len(lit) - 1)]
    /\ bret' = [op |-> "new"]
    /\ UNCHANGED <<copies, cvVars>>

\* BackedStringView(BackedStringView && other): the variant's alternative is
\* moved; the model follows the object that now holds it.
moveCtor ==
    /\ live
    /\ data' = IF IsOwned(data)
               THEN [kind |-> "string", buf |-> data.buf]
               ELSE [kind |-> "string_view", buf |-> data.buf,
                     off |-> data.off, len |-> data.len]
    /\ bret' = [op |-> "move"]
    /\ UNCHANGED <<heap, origin, copies, cvVars>>

isOwned ==
    /\ live
    /\ bret' = [op |-> "isOwned", val |-> IsOwned(data)]
    /\ UNCHANGED <<data, heap, origin, copies, cvVars>>

\* operator*
deref ==
    /\ live
    /\ bret' = [op |-> "deref", view |-> Deref(data, heap)]
    /\ UNCHANGED <<data, heap, origin, copies, cvVars>>

\* operator->: Ptr(**this)
arrow ==
    /\ live
    /\ bret' = [op |-> "arrow", view |-> Deref(data, heap)]
    /\ UNCHANGED <<data, heap, origin, copies, cvVars>>

toOwned ==
    /\ live
    /\ LET r == ToOwned(data, heap)
       IN  /\ data' = r.data
           /\ heap' = r.heap
           /\ copies' = copies + r.copied
           /\ bret' = [op |-> "toOwned", buf |-> r.buf]
    /\ UNCHANGED <<origin, cvVars>>

\* The caller appends a character to the std::string toOwned() returned.
mutate(c) ==
    /\ bret.op = "toOwned"
    /\ heap' = [heap EXCEPT ![bret.buf] = Append(@, c)]
    /\ bret' = [op |-> "mutated", buf |-> bret.buf]
    /\ UNCHANGED <<data, origin, copies, cvVars>>

\* no ChunkedVector exists
NoVector ==
    /\ ChunkSize = 1
    /\ size_ = 0
    /\ chunks = <<>>
    /\ outerBuf = 0
    /\ outerCap = 0
    /\ nextBuf = 1
    /\ aborted = FALSE
    /\ ret = [op |-> "none"]
    /\ writes = {}
    /\ added = <<>>
    /\ returned = <<>>

InitView == NoVector /\ NoView

NextView ==
    \/ \E s \in Strs(MaxLen) : FromString(s)
    \/ \E s \in Strs(MaxLen) : \E off \in 0..Len(s) : \E len \in 0..(Len(s) - off) :
          FromView(s, off, len)
    \/ \E lit \in Literals : FromLiteral(lit)
    \/ moveCtor
    \/ isOwned
    \/ deref
    \/ arrow
    \/ toOwned
    \/ \E c \in Chars : mutate(c)

SpecView == InitView /\ [][NextView]_vars

\* ---------------------------------------------- BackedStringView: claims
\* what a toOwned step, a write to its result and any other step must satisfy
C7_Step ==
    /\ bret'.op = "toOwned" =>
          /\ heap'[bret'.buf] = Contents(heap, Deref(data, heap))
          /\ copies' = copies + (IF IsOwned(data) THEN 0 ELSE 1)
          /\ IsOwned(data) => bret'.buf = data.buf /\ heap' = heap
          /\ ~IsOwned(data) =>
                /\ bret'.buf \notin DOMAIN heap
                /\ \A b \in DOMAIN heap : heap'[b] = heap[b]
    /\ bret'.op = "mutated" /\ origin.from # "string" =>
          /\ heap'[data.buf] = heap[data.buf]
          /\ Contents(heap', Deref(data, heap)) = origin.arg
    /\ bret'.op # "toOwned" => copies' = copies
C8_State ==
    data.kind # "none" =>
        /\ data.kind \in {"string", "string_view"}
        /\ IsOwned(data) <=> origin.from = "string"
        /\ ~IsOwned(data) <=> origin.from \in {"string_view", "literal"}
        /\ live => Contents(heap, Deref(data, heap)) = origin.arg
        /\ bret.op = "isOwned" => bret.val = (origin.from = "string")
        /\ bret.op = "deref" => Contents(heap, bret.view) = origin.arg
C8_Step == bret'.op \in {"isOwned", "deref"} => UNCHANGED <<data, heap>>
====
